---- MODULE Spec2Model ----
(***************************************************************************)
(* A model of the window/tab relative-order tracker TRelativeOrder         *)
(* (src/unnamed/part_000).                                                 *)
(*                                                                         *)
(* JavaScript values are encoded as follows.                               *)
(*   - a window or tab id is an integer; the JS value `undefined` in an    *)
(*     integer slot is `undefinedId`;                                      *)
(*   - a window name is a sequence of one-character strings; the JS value  *)
(*     `undefined` in a name slot is `undefinedName`;                      *)
(*   - a plain object used as a dictionary is a function whose DOMAIN is   *)
(*     the set of own keys; the dictionaries `_active` and `_naming` live  *)
(*     on a heap (`active`, `naming`) and a tracker holds a reference to   *)
(*     them (`activeOf`, `namingOf`), because toSerializable and           *)
(*     fromSerializable pass them by reference;                            *)
(*   - a T1DLinkedList is the sequence of its ids (./linkedlist is not     *)
(*     part of the sources at hand; its operations follow the design       *)
(*     document's section 4.1).                                            *)
(***************************************************************************)
EXTENDS Integers, Sequences, FiniteSets, TLC

\* ---------------------------------------------------------------- bounds
\* longest window order the model lets registerWindow build
MaxWOrder == 2
\* largest position argument handed to insert / move / tab.index
MaxIndex == 1

\* ---------------------------------------------------------------- inputs
WindowIds == {1, 2}
TabIds == {10, 11}
Positions == (0 - 1) .. MaxIndex
\* names handed to setName: one with a blank before it, one all blank
Names == {<<" ", "a">>, <<" ">>}
\* tracker 1 is `new TRelativeOrder()`, tracker 2 the result of fromSerializable
Trackers == {1, 2}
Fields == {"worder", "order", "active", "focusedWindow", "naming"}

\* ---------------------------------------------------------------- values
undefinedId == 0 - 2
undefinedName == <<"undefined">>
noneFocused == -1
noActiveTab == -1
\* reference value of a field that holds `undefined` instead of an object
undefinedRef == 0

VARIABLES
    live,           \* the trackers constructed so far
    worder,         \* worder[t]: this._worder of tracker t
    order,          \* order[t]: this._order, window id -> tab sequence
    activeOf,       \* activeOf[t]: the object this._active refers to
    namingOf,       \* namingOf[t]: the object this._naming refers to
    focusedWindow,  \* focusedWindow[t]: this._focusedWindow
    active,         \* heap of { windowId: tabId } objects
    naming,         \* heap of { windowId: name } objects
    store,          \* $localtmp$: window id w stands for the key "window<w>"
    title,          \* title preface of each window (TWindowActions)
    reload,         \* the one reloadNamesFromTemporaryStore call in flight
    registered,     \* history, per id: "never" registered, or whether the last
                    \* of its registerWindow / unregisterWindow calls
                    \* "registered" or "unregistered" it
    last            \* the operation that made the last step, and how it ended

vars == <<live, worder, order, activeOf, namingOf, focusedWindow, active,
          naming, store, title, reload, registered, last>>

\* ------------------------------------------------------- plain objects
Put(m, k, v) == [x \in (DOMAIN m) \cup {k} |-> IF x = k THEN v ELSE m[x]]
Del(m, k) == [x \in (DOMAIN m) \ {k} |-> m[x]]
GetId(m, k) == IF k \in DOMAIN m THEN m[k] ELSE undefinedId
GetNameOf(m, k) == IF k \in DOMAIN m THEN m[k] ELSE undefinedName
EmptyObject == [x \in {} |-> 0]

\* --------------------------------------------------- T1DLinkedList
RemoveAt(s, i) == SubSeq(s, 1, i - 1) \o SubSeq(s, i + 1, Len(s))
Clamp(i, n) == IF i < 0 THEN 0 ELSE IF i > n THEN n ELSE i
Occurrences(s, id) == {i \in 1 .. Len(s) : s[i] = id}

\* append(id): adds id at the end, without looking for a duplicate
LLappend(s, id) == Append(s, id)
\* insert(id, position): id occupies `position` (0-based, clamped) afterwards
LLinsert(s, id, i) ==
    LET p == Clamp(i, Len(s))
    IN SubSeq(s, 1, p) \o <<id>> \o SubSeq(s, p + 1, Len(s))
\* remove(id): the possible results; a no-op when id is absent.  When id
\* occurs more than once the occurrence that goes is not determined.
LLremove(s, id) ==
    IF Occurrences(s, id) = {} THEN {s}
    ELSE {RemoveAt(s, i) : i \in Occurrences(s, id)}
\* move(id, position): remove, then insert
LLmove(s, id, i) == {LLinsert(r, id, i) : r \in LLremove(s, id)}
\* toArray(): a fresh array of the ids in order
LLtoArray(s) == [i \in 1 .. Len(s) |-> s[i]]
\* fromArray(ids): built by appending the ids one by one, no deduplication
RECURSIVE LLfromArrayFrom(_, _)
LLfromArrayFrom(s, arr) ==
    IF arr = <<>> THEN s ELSE LLfromArrayFrom(LLappend(s, Head(arr)), Tail(arr))
LLfromArray(arr) == LLfromArrayFrom(<<>>, arr)

\* t_in(object, key): key is a property of object
t_in(obj, k) == k \in DOMAIN obj

\* ------------------------------------------------------------ strings
IsBlankChar(c) == c = " "
RECURSIVE TrimLeft(_)
TrimLeft(s) ==
    IF s # <<>> /\ IsBlankChar(Head(s)) THEN TrimLeft(Tail(s)) ELSE s
RECURSIVE TrimRight(_)
TrimRight(s) ==
    IF s # <<>> /\ IsBlankChar(s[Len(s)]) THEN TrimRight(SubSeq(s, 1, Len(s) - 1))
    ELSE s
\* String.prototype.trim
Trim(s) == TrimRight(TrimLeft(s))
\* `[${name}] `
Preface(name) == <<"[">> \o name \o <<"]", " ">>
\* truthiness of the value getOne resolves to
Truthy(name) == name # undefinedName /\ name # <<>>

\* ---------------------------------------------------------- accessors
getFocusedWindow(t) == focusedWindow[t]
getName(t, w) == GetNameOf(naming[namingOf[t]], w)
getActiveTab(t, w) == GetId(active[activeOf[t]], w)
hasWindow(t, w) == t_in(order[t], w)

\* getAllAs2DArray(): "TypeError" when an id of the window order has no
\* tab-order record (this._order[windowId] is undefined)
getAllAs2DArrayThrows(t) ==
    \E i \in 1 .. Len(worder[t]) : worder[t][i] \notin DOMAIN order[t]
getAllAs2DArray(t) ==
    LET windowOrder == LLtoArray(worder[t])
    IN [i \in 1 .. Len(windowOrder) |-> LLtoArray(order[t][windowOrder[i]])]

\* ------------------------------------------------------------- Init
\* `before` is a history field: this._naming as it was when the call began
Idle == [pc |-> "idle", self |-> 0, keys |-> <<>>, key |-> 0, name |-> undefinedName,
         before |-> EmptyObject]
NoOp == [op |-> "new", t |-> 1, w |-> 0, err |-> "none", calls |-> <<>>, ret |-> <<>>]

Init ==
    /\ live = {1}
    /\ worder = [t \in Trackers |-> <<>>]
    /\ order = [t \in Trackers |-> EmptyObject]
    /\ activeOf = [t \in Trackers |-> t]
    /\ namingOf = [t \in Trackers |-> t]
    /\ focusedWindow = [t \in Trackers |-> noneFocused]
    /\ active = [r \in Trackers |-> EmptyObject]
    /\ naming = [r \in Trackers |-> EmptyObject]
    /\ store = EmptyObject
    /\ title = [w \in WindowIds |-> <<>>]
    /\ reload = Idle
    /\ registered = [t \in Trackers |-> [w \in WindowIds |-> "never"]]
    /\ last = NoOp

\* what the step that just ran was: operation, tracker, window id, the error
\* it ended in ("none" when it returned) and the collaborator calls it made
Done(op, t, w, err) ==
    last' = [op |-> op, t |-> t, w |-> w, err |-> err, calls |-> <<>>, ret |-> <<>>]
DoneCalling(op, t, w, calls) ==
    last' = [op |-> op, t |-> t, w |-> w, err |-> "none", calls |-> calls,
             ret |-> <<>>]
\* ... and the value it returned, where the model needs it
DoneReturning(op, t, err, ret) ==
    last' = [op |-> op, t |-> t, w |-> 0, err |-> err, calls |-> <<>>,
             ret |-> ret]

\* ------------------------------------------------ focus, active tab
setFocusedWindow(t, windowId) ==
    /\ focusedWindow' = [focusedWindow EXCEPT ![t] = windowId]
    /\ Done("setFocusedWindow", t, windowId, "none")
    /\ UNCHANGED <<live, worder, order, activeOf, namingOf, active, naming,
                   store, title, reload, registered>>

setActiveTab(t, parentWindowId, tabId) ==
    /\ active' = [active EXCEPT ![activeOf[t]] = Put(@, parentWindowId, tabId)]
    /\ Done("setActiveTab", t, parentWindowId, "none")
    /\ UNCHANGED <<live, worder, order, activeOf, namingOf, focusedWindow,
                   naming, store, title, reload, registered>>

\* ------------------------------------------------------------ names
\* mutant: the trimmed name is what is kept in memory
setNameTrimmed(t, windowId, name) ==
    /\ IF Trim(name) = <<>>
       THEN /\ store' = Del(store, windowId)
            /\ title' = [title EXCEPT ![windowId] = <<>>]
            /\ naming' = [naming EXCEPT ![namingOf[t]] =
                              Put(@, windowId, undefinedName)]
            /\ DoneCalling("setName", t, windowId,
                   <<[fn |-> "unset", w |-> windowId, arg |-> <<>>],
                     [fn |-> "titlePreface", w |-> windowId, arg |-> <<>>]>>)
       ELSE /\ store' = Put(store, windowId, name)
            /\ title' = [title EXCEPT ![windowId] = Preface(name)]
            /\ naming' = [naming EXCEPT ![namingOf[t]] =
                              Put(@, windowId, Trim(name))]
            /\ DoneCalling("setName", t, windowId,
                   <<[fn |-> "set", w |-> windowId, arg |-> name],
                     [fn |-> "titlePreface", w |-> windowId, arg |-> Preface(name)]>>)
    /\ UNCHANGED <<live, worder, order, activeOf, namingOf, focusedWindow,
                   active, reload, registered>>

setName(t, windowId, name) ==
    /\ IF Trim(name) = <<>>
       THEN /\ store' = Del(store, windowId)
            /\ title' = [title EXCEPT ![windowId] = <<>>]
            /\ naming' = [naming EXCEPT ![namingOf[t]] =
                              Put(@, windowId, undefinedName)]
            /\ DoneCalling("setName", t, windowId,
                   <<[fn |-> "unset", w |-> windowId, arg |-> <<>>],
                     [fn |-> "titlePreface", w |-> windowId, arg |-> <<>>]>>)
       ELSE /\ store' = Put(store, windowId, name)
            /\ title' = [title EXCEPT ![windowId] = Preface(name)]
            /\ naming' = [naming EXCEPT ![namingOf[t]] = Put(@, windowId, name)]
            /\ DoneCalling("setName", t, windowId,
                   <<[fn |-> "set", w |-> windowId, arg |-> name],
                     [fn |-> "titlePreface", w |-> windowId, arg |-> Preface(name)]>>)
    /\ UNCHANGED <<live, worder, order, activeOf, namingOf, focusedWindow,
                   active, reload, registered>>

\* ------------------------------------------- register / unregister
\* mutant: a window that is already registered keeps its name
registerWindowKeepsName(t, windowId) ==
    /\ Len(worder[t]) < MaxWOrder
    /\ order' = [order EXCEPT ![t] = Put(@, windowId, <<>>)]
    /\ active' = [active EXCEPT ![activeOf[t]] = Put(@, windowId, noActiveTab)]
    /\ naming' = [naming EXCEPT ![namingOf[t]] =
                      IF windowId \in DOMAIN @ THEN @
                      ELSE Put(@, windowId, undefinedName)]
    /\ worder' = [worder EXCEPT ![t] = LLappend(@, windowId)]
    /\ registered' = [registered EXCEPT ![t][windowId] = "registered"]
    /\ Done("registerWindow", t, windowId, "none")
    /\ UNCHANGED <<live, activeOf, namingOf, focusedWindow, store, title,
                   reload>>

registerWindow(t, windowId) ==
    /\ Len(worder[t]) < MaxWOrder
    /\ order' = [order EXCEPT ![t] = Put(@, windowId, <<>>)]
    /\ active' = [active EXCEPT ![activeOf[t]] = Put(@, windowId, noActiveTab)]
    /\ naming' = [naming EXCEPT ![namingOf[t]] = Put(@, windowId, undefinedName)]
    /\ worder' = [worder EXCEPT ![t] = LLappend(@, windowId)]
    /\ registered' = [registered EXCEPT ![t][windowId] = "registered"]
    /\ Done("registerWindow", t, windowId, "none")
    /\ UNCHANGED <<live, activeOf, namingOf, focusedWindow, store, title,
                   reload>>

\* mutant: unregistering the focused window resets the focus
unregisterWindowClearsFocus(t, windowId) ==
    /\ order' = [order EXCEPT ![t] = Del(@, windowId)]
    /\ active' = [active EXCEPT ![activeOf[t]] = Del(@, windowId)]
    /\ naming' = [naming EXCEPT ![namingOf[t]] = Del(@, windowId)]
    /\ \E s \in LLremove(worder[t], windowId) : worder' = [worder EXCEPT ![t] = s]
    /\ focusedWindow' = [focusedWindow EXCEPT ![t] =
                             IF @ = windowId THEN noneFocused ELSE @]
    /\ registered' = [registered EXCEPT ![t][windowId] =
                          IF @ = "never" THEN "never" ELSE "unregistered"]
    /\ Done("unregisterWindow", t, windowId, "none")
    /\ UNCHANGED <<live, activeOf, namingOf, store, title, reload>>

\* mutant: the active-tab record is left behind
unregisterWindowKeepsActive(t, windowId) ==
    /\ order' = [order EXCEPT ![t] = Del(@, windowId)]
    /\ naming' = [naming EXCEPT ![namingOf[t]] = Del(@, windowId)]
    /\ \E s \in LLremove(worder[t], windowId) : worder' = [worder EXCEPT ![t] = s]
    /\ registered' = [registered EXCEPT ![t][windowId] =
                          IF @ = "never" THEN "never" ELSE "unregistered"]
    /\ Done("unregisterWindow", t, windowId, "none")
    /\ UNCHANGED <<live, activeOf, namingOf, focusedWindow, active, store,
                   title, reload>>

\* mutant: the window's entry in the temporary store is unset as well
unregisterWindowUnsetsStore(t, windowId) ==
    /\ order' = [order EXCEPT ![t] = Del(@, windowId)]
    /\ active' = [active EXCEPT ![activeOf[t]] = Del(@, windowId)]
    /\ naming' = [naming EXCEPT ![namingOf[t]] = Del(@, windowId)]
    /\ \E s \in LLremove(worder[t], windowId) : worder' = [worder EXCEPT ![t] = s]
    /\ registered' = [registered EXCEPT ![t][windowId] =
                          IF @ = "never" THEN "never" ELSE "unregistered"]
    /\ store' = Del(store, windowId)
    /\ Done("unregisterWindow", t, windowId, "none")
    /\ UNCHANGED <<live, activeOf, namingOf, focusedWindow, title, reload>>

unregisterWindow(t, windowId) ==
    /\ order' = [order EXCEPT ![t] = Del(@, windowId)]
    /\ active' = [active EXCEPT ![activeOf[t]] = Del(@, windowId)]
    /\ naming' = [naming EXCEPT ![namingOf[t]] = Del(@, windowId)]
    /\ \E s \in LLremove(worder[t], windowId) : worder' = [worder EXCEPT ![t] = s]
    /\ registered' = [registered EXCEPT ![t][windowId] =
                          IF @ = "never" THEN "never" ELSE "unregistered"]
    /\ Done("unregisterWindow", t, windowId, "none")
    /\ UNCHANGED <<live, activeOf, namingOf, focusedWindow, store, title,
                   reload>>

\* --------------------------------------------------------- tab order
\* this._order[windowId].<method>(...) with this._order[windowId] undefined:
\* a TypeError, raised before anything is written
UnknownWindowThrows(op, t, windowId) ==
    /\ windowId \notin DOMAIN order[t]
    /\ Done(op, t, windowId, "TypeError")
    /\ UNCHANGED <<live, worder, order, activeOf, namingOf, focusedWindow,
                   active, naming, store, title, reload, registered>>

\* mutant: inferActive is not looked at
appendTabToWindowIgnoresInfer(t, windowId, tab, inferActive) ==
    \/ UnknownWindowThrows("appendTabToWindow", t, windowId)
    \/ /\ windowId \in DOMAIN order[t]
       /\ Occurrences(order[t][windowId], tab.id) = {}
       /\ order' = [order EXCEPT ![t][windowId] = LLinsert(@, tab.id, tab.index)]
       /\ IF tab.active
          THEN active' = [active EXCEPT ![activeOf[t]] = Put(@, windowId, tab.id)]
          ELSE active' = active
       /\ Done("appendTabToWindow", t, windowId, "none")
       /\ UNCHANGED <<live, worder, activeOf, namingOf, focusedWindow, naming,
                      store, title, reload, registered>>

\* mutant: the active tab is recorded before the tab is inserted
appendTabToWindowActiveFirst(t, windowId, tab, inferActive) ==
    \/ /\ windowId \notin DOMAIN order[t]
       /\ IF tab.active /\ inferActive
          THEN active' = [active EXCEPT ![activeOf[t]] = Put(@, windowId, tab.id)]
          ELSE active' = active
       /\ Done("appendTabToWindow", t, windowId, "TypeError")
       /\ UNCHANGED <<live, worder, order, activeOf, namingOf, focusedWindow,
                      naming, store, title, reload, registered>>
    \/ /\ windowId \in DOMAIN order[t]
       /\ Occurrences(order[t][windowId], tab.id) = {}
       /\ order' = [order EXCEPT ![t][windowId] = LLinsert(@, tab.id, tab.index)]
       /\ IF tab.active /\ inferActive
          THEN active' = [active EXCEPT ![activeOf[t]] = Put(@, windowId, tab.id)]
          ELSE active' = active
       /\ Done("appendTabToWindow", t, windowId, "none")
       /\ UNCHANGED <<live, worder, activeOf, namingOf, focusedWindow, naming,
                      store, title, reload, registered>>

appendTabToWindow(t, windowId, tab, inferActive) ==
    \/ UnknownWindowThrows("appendTabToWindow", t, windowId)
    \/ /\ windowId \in DOMAIN order[t]
       /\ Occurrences(order[t][windowId], tab.id) = {}
       /\ order' = [order EXCEPT ![t][windowId] = LLinsert(@, tab.id, tab.index)]
       /\ IF tab.active /\ inferActive
          THEN active' = [active EXCEPT ![activeOf[t]] = Put(@, windowId, tab.id)]
          ELSE active' = active
       /\ Done("appendTabToWindow", t, windowId, "none")
       /\ UNCHANGED <<live, worder, activeOf, namingOf, focusedWindow, naming,
                      store, title, reload, registered>>

\* mutant: removing the active tab clears the window's active-tab record
removeTabFromWindowClearsActive(t, windowId, tabId) ==
    \/ UnknownWindowThrows("removeTabFromWindow", t, windowId)
    \/ /\ windowId \in DOMAIN order[t]
       /\ \E s \in LLremove(order[t][windowId], tabId) :
              order' = [order EXCEPT ![t][windowId] = s]
       /\ IF getActiveTab(t, windowId) = tabId
          THEN active' = [active EXCEPT ![activeOf[t]] =
                              Put(@, windowId, noActiveTab)]
          ELSE active' = active
       /\ Done("removeTabFromWindow", t, windowId, "none")
       /\ UNCHANGED <<live, worder, activeOf, namingOf, focusedWindow,
                      naming, store, title, reload, registered>>

removeTabFromWindow(t, windowId, tabId) ==
    \/ UnknownWindowThrows("removeTabFromWindow", t, windowId)
    \/ /\ windowId \in DOMAIN order[t]
       /\ \E s \in LLremove(order[t][windowId], tabId) :
              order' = [order EXCEPT ![t][windowId] = s]
       /\ Done("removeTabFromWindow", t, windowId, "none")
       /\ UNCHANGED <<live, worder, activeOf, namingOf, focusedWindow, active,
                      naming, store, title, reload, registered>>

insertTabIntoWindow(t, windowId, tabId, i) ==
    \/ UnknownWindowThrows("insertTabIntoWindow", t, windowId)
    \/ /\ windowId \in DOMAIN order[t]
       /\ Occurrences(order[t][windowId], tabId) = {}
       /\ order' = [order EXCEPT ![t][windowId] = LLinsert(@, tabId, i)]
       /\ Done("insertTabIntoWindow", t, windowId, "none")
       /\ UNCHANGED <<live, worder, activeOf, namingOf, focusedWindow, active,
                      naming, store, title, reload, registered>>

\* mutant: the id is inserted before its old occurrence is taken out
moveTabWithinWindowInsertFirst(t, windowId, tabId, i) ==
    \/ UnknownWindowThrows("moveTabWithinWindow", t, windowId)
    \/ /\ windowId \in DOMAIN order[t]
       /\ Occurrences(order[t][windowId], tabId) # {}
       /\ \E j \in Occurrences(order[t][windowId], tabId) :
              LET p == Clamp(i, Len(order[t][windowId]))
                  grown == LLinsert(order[t][windowId], tabId, i)
                  old == IF j > p THEN j + 1 ELSE j
              IN order' = [order EXCEPT ![t][windowId] = RemoveAt(grown, old)]
       /\ Done("moveTabWithinWindow", t, windowId, "none")
       /\ UNCHANGED <<live, worder, activeOf, namingOf, focusedWindow, active,
                      naming, store, title, reload, registered>>

moveTabWithinWindow(t, windowId, tabId, i) ==
    \/ UnknownWindowThrows("moveTabWithinWindow", t, windowId)
    \/ /\ windowId \in DOMAIN order[t]
       /\ Occurrences(order[t][windowId], tabId) # {}
       /\ \E s \in LLmove(order[t][windowId], tabId, i) :
              order' = [order EXCEPT ![t][windowId] = s]
       /\ Done("moveTabWithinWindow", t, windowId, "none")
       /\ UNCHANGED <<live, worder, activeOf, namingOf, focusedWindow, active,
                      naming, store, title, reload, registered>>


\* ------------------------------------- reloadNamesFromTemporaryStore
\* the keys of an object with integer keys, in the order for-in visits them
RECURSIVE SortedKeys(_)
SortedKeys(S) ==
    IF S = {} THEN <<>>
    ELSE LET m == CHOOSE x \in S : \A y \in S : x <= y
         IN <<m>> \o SortedKeys(S \ {m})
\* for-in does not visit a key deleted before its turn
RECURSIVE SkipDeleted(_, _)
SkipDeleted(keys, obj) ==
    IF keys # <<>> /\ Head(keys) \notin DOMAIN obj
    THEN SkipDeleted(Tail(keys), obj) ELSE keys
\* run the loop from its head to the next `await` or to the end
ReloadAdvance(t, keys, obj) ==
    LET rest == SkipDeleted(keys, obj)
        before == IF reload.pc = "idle" THEN obj ELSE reload.before
    IN IF rest = <<>>
       THEN /\ reload' = Idle
            /\ DoneReturning("reloadResolved", t, "none", <<before>>)
       ELSE /\ reload' = [pc |-> "await", self |-> t, keys |-> Tail(rest),
                          key |-> Head(rest), name |-> undefinedName,
                          before |-> before]
            /\ Done("reloadAwait", t, Head(rest), "none")

\* the call: the loop starts and runs up to its first await
reloadNamesFromTemporaryStore(t) ==
    /\ reload.pc = "idle"
    /\ ReloadAdvance(t, SortedKeys(DOMAIN naming[namingOf[t]]), naming[namingOf[t]])
    /\ UNCHANGED <<live, worder, order, activeOf, namingOf, focusedWindow,
                   active, naming, store, title, registered>>

\* $localtmp$.getOne(`window${windowId}`) reads the store
getOne ==
    /\ reload.pc = "await"
    /\ reload' = [reload EXCEPT !.pc = "answered",
                                !.name = GetNameOf(store, reload.key)]
    /\ Done("getOne", reload.self, reload.key, "none")
    /\ UNCHANGED <<live, worder, order, activeOf, namingOf, focusedWindow,
                   active, naming, store, title, registered>>

\* mutant: the test of the value read is inverted
reloadResumeInverted ==
    /\ reload.pc = "answered"
    /\ LET t == reload.self
           obj == IF ~Truthy(reload.name)
                  THEN Put(naming[namingOf[t]], reload.key, reload.name)
                  ELSE naming[namingOf[t]]
       IN /\ naming' = [naming EXCEPT ![namingOf[t]] = obj]
          /\ ReloadAdvance(t, reload.keys, obj)
    /\ UNCHANGED <<live, worder, order, activeOf, namingOf, focusedWindow,
                   active, store, title, registered>>

\* the continuation after the await: the write, then the loop goes on
reloadResume ==
    /\ reload.pc = "answered"
    /\ LET t == reload.self
           obj == IF Truthy(reload.name)
                  THEN Put(naming[namingOf[t]], reload.key, reload.name)
                  ELSE naming[namingOf[t]]
       IN /\ naming' = [naming EXCEPT ![namingOf[t]] = obj]
          /\ ReloadAdvance(t, reload.keys, obj)
    /\ UNCHANGED <<live, worder, order, activeOf, namingOf, focusedWindow,
                   active, store, title, registered>>

\* ---------------------------------------------------- serialization
\* mutant: the window order is taken from the keys of this._order
toSerializableKeyOrder(t) ==
    [worder |-> SortedKeys(DOMAIN order[t]),
     order |-> [w \in DOMAIN order[t] |-> LLtoArray(order[t][w])],
     active |-> activeOf[t],
     focusedWindow |-> focusedWindow[t],
     naming |-> namingOf[t]]

toSerializable(t) ==
    [worder |-> LLtoArray(worder[t]),
     order |-> [w \in DOMAIN order[t] |-> LLtoArray(order[t][w])],
     active |-> activeOf[t],
     focusedWindow |-> focusedWindow[t],
     naming |-> namingOf[t]]

\* fromSerializable(root), root having the fields `has` only.
\* T1DLinkedList.fromArray(undefined) is taken to raise a TypeError (it has
\* to read its argument); `for (... in undefined)` runs no iteration; an
\* assignment from a missing field stores undefined.
fromSerializable(root, has) ==
    IF "worder" \notin has
    THEN [threw |-> TRUE]
    ELSE [threw |-> FALSE,
          worder |-> LLfromArray(root.worder),
          order |-> IF "order" \in has
                    THEN [w \in DOMAIN root.order |-> LLfromArray(root.order[w])]
                    ELSE EmptyObject,
          activeOf |-> IF "active" \in has THEN root.active ELSE undefinedRef,
          focusedWindow |-> IF "focusedWindow" \in has THEN root.focusedWindow
                            ELSE undefinedId,
          namingOf |-> IF "naming" \in has THEN root.naming ELSE undefinedRef]

\* rel = TRelativeOrder.fromSerializable(src.toSerializable())
roundTrip(src, rel) ==
    /\ src \in live
    /\ rel \notin live
    /\ LET r == fromSerializable(toSerializable(src), Fields)
       IN /\ worder' = [worder EXCEPT ![rel] = r.worder]
          /\ order' = [order EXCEPT ![rel] = r.order]
          /\ activeOf' = [activeOf EXCEPT ![rel] = r.activeOf]
          /\ namingOf' = [namingOf EXCEPT ![rel] = r.namingOf]
          /\ focusedWindow' = [focusedWindow EXCEPT ![rel] = r.focusedWindow]
    /\ live' = live \cup {rel}
    /\ registered' = [registered EXCEPT ![rel] = registered[src]]
    /\ Done("fromSerializable", rel, 0, "none")
    /\ UNCHANGED <<active, naming, store, title, reload>>

\* TRelativeOrder.fromSerializable(root), root being src.toSerializable()
\* without the field `missing`
fromSerializableMalformed(src, missing) ==
    /\ src \in live
    /\ LET r == fromSerializable(toSerializable(src), Fields \ {missing})
       IN DoneReturning("fromSerializableMalformed", src,
                        IF r.threw THEN "TypeError" ELSE "none",
                        <<missing, r>>)
    /\ UNCHANGED <<live, worder, order, activeOf, namingOf, focusedWindow,
                   active, naming, store, title, reload, registered>>

\* ------------------------------------------------------------- Next
Tabs == [id : TabIds, index : Positions, active : BOOLEAN]

\* one tracker: windows, their names and active tabs, tabs appended
Next ==
    \/ \E w \in WindowIds, tabId \in TabIds : setActiveTab(1, w, tabId)
    \/ \E w \in WindowIds, name \in Names : setName(1, w, name)
    \/ \E w \in WindowIds : registerWindow(1, w)
    \/ \E w \in WindowIds : unregisterWindow(1, w)
    \/ \E w \in WindowIds, tab \in Tabs, inferActive \in BOOLEAN :
           appendTabToWindow(1, w, tab, inferActive)

Spec == Init /\ [][Next]_vars

\* one tracker: windows and every operation on their tab order; window 1
\* is given tabs from a larger set, so that a sequence of three can form,
\* and the other windows hold at most one tab
MoreTabIds == {10, 11, 12}
TabIdsOf(w) == IF w = 1 THEN MoreTabIds ELSE {10}
NextTabs ==
    \/ \E w \in WindowIds, tabId \in TabIds : setActiveTab(1, w, tabId)
    \/ \E w \in WindowIds : registerWindow(1, w)
    \/ \E w \in WindowIds : unregisterWindow(1, w)
    \/ \E w \in WindowIds :
         \E tab \in [id : TabIdsOf(w), index : Positions, active : BOOLEAN],
            inferActive \in BOOLEAN :
           appendTabToWindow(1, w, tab, inferActive)
    \/ \E w \in WindowIds : \E tabId \in TabIdsOf(w) :
           removeTabFromWindow(1, w, tabId)
    \/ \E w \in WindowIds : \E tabId \in TabIdsOf(w), i \in Positions :
           insertTabIntoWindow(1, w, tabId, i)
    \/ \E w \in WindowIds : \E tabId \in TabIdsOf(w), i \in Positions :
           moveTabWithinWindow(1, w, tabId, i)

SpecTabs == Init /\ [][NextTabs]_vars

\* one tracker; windows, names, the focused window and the reload of names
NextReload ==
    \/ \E w \in WindowIds \cup {noneFocused} : setFocusedWindow(1, w)
    \/ \E w \in WindowIds, name \in Names : setName(1, w, name)
    \/ \E w \in WindowIds : registerWindow(1, w)
    \/ \E w \in WindowIds : unregisterWindow(1, w)
    \/ reloadNamesFromTemporaryStore(1)
    \/ getOne
    \/ reloadResume

SpecReload == Init /\ [][NextReload]_vars

\* the same, with nothing running between the call of
\* reloadNamesFromTemporaryStore and its resolution; the store answers every
\* read and the continuation of an answered await is run
\* the windows another operation may be called on: none while a reload is
\* suspended at its await
WhileIdle(S) == IF reload.pc = "idle" THEN S ELSE {}
NextReloadAlone ==
    \/ \E w \in WhileIdle(WindowIds \cup {noneFocused}) : setFocusedWindow(1, w)
    \/ \E w \in WhileIdle(WindowIds) : \E name \in Names : setName(1, w, name)
    \/ \E w \in WhileIdle(WindowIds) : registerWindow(1, w)
    \/ \E w \in WhileIdle(WindowIds) : unregisterWindow(1, w)
    \/ reloadNamesFromTemporaryStore(1)
    \/ getOne
    \/ reloadResume

SpecReloadAlone ==
    Init /\ [][NextReloadAlone]_vars /\ WF_vars(getOne) /\ WF_vars(reloadResume)

\* the same, with setName alone running while a reload is in flight
NextReloadNames ==
    \/ \E w \in WhileIdle(WindowIds) : registerWindow(1, w)
    \/ \E w \in WhileIdle(WindowIds) : unregisterWindow(1, w)
    \/ \E w \in WindowIds, name \in Names : setName(1, w, name)
    \/ reloadNamesFromTemporaryStore(1)
    \/ getOne
    \/ reloadResume

SpecReloadNames == Init /\ [][NextReloadNames]_vars

\* a client that registers a window before it names it and does not
\* register a window twice; a reload runs with nothing in between
NextReloadReopen ==
    \/ \E w \in WhileIdle({v \in WindowIds : hasWindow(1, v)}) :
           \E name \in Names : setName(1, w, name)
    \/ \E w \in WhileIdle({v \in WindowIds : ~hasWindow(1, v)}) :
           registerWindow(1, w)
    \/ \E w \in WhileIdle(WindowIds) : unregisterWindow(1, w)
    \/ reloadNamesFromTemporaryStore(1)
    \/ getOne
    \/ reloadResume

SpecReloadReopen == Init /\ [][NextReloadReopen]_vars

\* a tracker built by register / append / name / active-tab / focus
\* operations, then copied through toSerializable / fromSerializable
NextRT ==
    \/ /\ live = {1}
       /\ \/ \E w \in WindowIds \cup {noneFocused} : setFocusedWindow(1, w)
          \/ \E w \in WindowIds, tabId \in TabIds : setActiveTab(1, w, tabId)
          \/ \E w \in WindowIds, name \in Names : setName(1, w, name)
          \/ \E w \in WindowIds : registerWindow(1, w)
          \/ \E w \in WindowIds, tab \in Tabs, inferActive \in {TRUE} :
                 appendTabToWindow(1, w, tab, inferActive)
    \/ roundTrip(1, 2)

SpecRT == Init /\ [][NextRT]_vars

\* a tracker, and what fromSerializable makes of its root when a field of
\* the root is missing
NextMalformed ==
    \/ \E w \in WindowIds \cup {noneFocused} : setFocusedWindow(1, w)
    \/ \E w \in WindowIds, tabId \in TabIds : setActiveTab(1, w, tabId)
    \/ \E w \in WindowIds, name \in Names : setName(1, w, name)
    \/ \E w \in WindowIds : registerWindow(1, w)
    \/ \E missing \in Fields : fromSerializableMalformed(1, missing)

SpecMalformed == Init /\ [][NextMalformed]_vars

\* two trackers related by fromSerializable(toSerializable()), each then
\* operated on its own
NextShare ==
    \/ \E t \in live, w \in WindowIds, tabId \in {10} : setActiveTab(t, w, tabId)
    \/ \E t \in live, w \in WindowIds, name \in Names : setName(t, w, name)
    \/ \E t \in live, w \in WindowIds : registerWindow(t, w)
    \/ \E t \in live, w \in WindowIds : unregisterWindow(t, w)
    \/ roundTrip(1, 2)

SpecShare == Init /\ [][NextShare]_vars

\* =================================================================
\* Properties
\* =================================================================
Range(s) == {s[i] : i \in 1 .. Len(s)}
\* the operations of a step, told from the record the step leaves in `last`
Stepped(op) == last'.op = op /\ last' # last

\* C1: in every state reached by registerWindow / unregisterWindow calls
\* (re-registering included) the ids with a tab-order record are the ids
\* of the window order, and each occurs exactly once in the window order.
C1_WindowOrderMatchesTabOrder ==
    /\ DOMAIN order[1] = Range(worder[1])
    /\ \A w \in DOMAIN order[1] :
           Cardinality(Occurrences(worder[1], w)) = 1

\* C2: when the window a reload is suspended on has been unregistered
\* meanwhile (it was registered, and has no tab-order record and no name
\* record now), the continuation of the reload writes no name record for it.
C2_ReloadDoesNotResurrect ==
    [][(/\ reload.pc = "answered"
        /\ reload'.pc # "answered"
        /\ registered[reload.self][reload.key] = "unregistered"
        /\ ~hasWindow(reload.self, reload.key)
        /\ reload.key \notin DOMAIN naming[namingOf[reload.self]])
       => reload.key \notin DOMAIN naming'[namingOf[reload.self]]]_vars

\* C3: right after T2 = fromSerializable(T.toSerializable()), T2 gives the
\* same getAllAs2DArray(), the same getName(w) and getActiveTab(w) for every
\* registered w, and the same getFocusedWindow() as T.
C3_RoundTrip ==
    last.op = "fromSerializable" =>
        /\ ~getAllAs2DArrayThrows(1)
        /\ ~getAllAs2DArrayThrows(2)
        /\ getAllAs2DArray(2) = getAllAs2DArray(1)
        /\ \A w \in WindowIds :
               hasWindow(1, w) =>
                   /\ hasWindow(2, w)
                   /\ getName(2, w) = getName(1, w)
                   /\ getActiveTab(2, w) = getActiveTab(1, w)
        /\ getFocusedWindow(2) = getFocusedWindow(1)

\* a round trip of a tracker with two windows registered in the order 2, 1,
\* two tabs in one of them, a name, an active tab and a focused window
C3_Witness ==
    /\ last.op = "fromSerializable"
    /\ worder[1] = <<2, 1>>
    /\ \E w \in WindowIds : hasWindow(1, w) /\ Len(order[1][w]) = 2
    /\ \E w \in WindowIds : hasWindow(1, w) /\ getName(1, w) = <<" ", "a">>
    /\ \E w \in WindowIds : hasWindow(1, w) /\ getActiveTab(1, w) \in TabIds
    /\ getFocusedWindow(1) \in WindowIds

\* C4: an active-tab record and a name record exist for a window id only if
\* the id is registered.
C4_RecordsOnlyWhileRegistered ==
    \A w \in WindowIds :
        (\/ w \in DOMAIN active[activeOf[1]]
         \/ w \in DOMAIN naming[namingOf[1]]) => hasWindow(1, w)

\* C5: once T2 = fromSerializable(T.toSerializable()) exists, an operation
\* on one of the two trackers leaves getActiveTab, getName and hasWindow of
\* the other unchanged for every window id.
C5_NoSharing ==
    [][(2 \in live /\ last' # last) =>
          \A o \in Trackers \ {last'.t} : \A w \in WindowIds :
              /\ getActiveTab(o, w)' = getActiveTab(o, w)
              /\ getName(o, w)' = getName(o, w)
              /\ hasWindow(o, w)' = hasWindow(o, w)]_vars

\* C6: right after unregisterWindow(w), hasWindow(w) is false and getName(w)
\* and getActiveTab(w) are undefined; and in every state hasWindow(w) is true
\* exactly when the last registerWindow / unregisterWindow call on w was
\* registerWindow.
C6_Unregistered ==
    /\ last.op = "unregisterWindow" =>
           /\ ~hasWindow(1, last.w)
           /\ getName(1, last.w) = undefinedName
           /\ getActiveTab(1, last.w) = undefinedId
    /\ \A w \in WindowIds :
           hasWindow(1, w) <=> registered[1][w] = "registered"

\* a window that was registered, named and given a tab has just been
\* unregistered, the other window being registered still
C6_Witness ==
    /\ last.op = "unregisterWindow"
    /\ registered[1][last.w] = "unregistered"
    /\ last.w \in DOMAIN store
    /\ \E o \in WindowIds \ {last.w} :
           hasWindow(1, o) /\ getActiveTab(1, o) \in TabIds

C8_UnregisterUnknownIsNoOp ==
    [][(Stepped("unregisterWindow") /\ registered[1][last'.w] = "never") =>
          /\ last'.err = "none"
          /\ UNCHANGED <<worder, order, active, naming, focusedWindow>>]_vars

\* C9: appendTabToWindow, removeTabFromWindow, insertTabIntoWindow and
\* moveTabWithinWindow on a window id that is not registered end in an error
\* and leave the tracker state unchanged.
TabOperations ==
    {"appendTabToWindow", "removeTabFromWindow", "insertTabIntoWindow",
     "moveTabWithinWindow"}
C9_UnknownWindowIsAnError ==
    [][(last' # last /\ last'.op \in TabOperations
           /\ ~hasWindow(1, last'.w)) =>
          /\ last'.err = "TypeError"
          /\ UNCHANGED <<worder, order, active, naming, focusedWindow,
                         activeOf, namingOf>>]_vars

\* a tab operation on an unregistered window has ended in an error, while
\* the other window is registered and holds a tab
C9_Witness ==
    /\ last.op \in TabOperations
    /\ last.err = "TypeError"
    /\ ~hasWindow(1, last.w)
    /\ \E o \in WindowIds \ {last.w} :
           hasWindow(1, o) /\ order[1][o] # <<>>

\* C10: fromSerializable(root) with a root that lacks one of worder, order,
\* active, focusedWindow, naming ends in an error.
C10_MalformedRootIsAnError ==
    last.op = "fromSerializableMalformed" => last.err = "TypeError"

\* C11: every setName(w, name) makes exactly one store call and one
\* title-preface call.  For a blank name getName(w) becomes undefined, the
\* store entry of w is unset and the preface is set to the empty string;
\* otherwise getName(w) becomes the name as given (untrimmed), the store
\* entry of w is set to it and the preface is set to "[name] ".
StoreCalls(calls) == {i \in 1 .. Len(calls) : calls[i].fn \in {"set", "unset"}}
PrefaceCalls(calls) == {i \in 1 .. Len(calls) : calls[i].fn = "titlePreface"}
IsBlank(name) == \A i \in 1 .. Len(name) : name[i] = " "
C11_SetName ==
    [][\A w \in WindowIds, name \in Names :
          setName(1, w, name) =>
            LET calls == last'.calls
                storeCall == calls[CHOOSE i \in StoreCalls(calls) : TRUE]
                prefaceCall == calls[CHOOSE i \in PrefaceCalls(calls) : TRUE]
            IN /\ Cardinality(StoreCalls(calls)) = 1
               /\ Cardinality(PrefaceCalls(calls)) = 1
               /\ Len(calls) = 2
               /\ storeCall.w = w
               /\ prefaceCall.w = w
               /\ IF IsBlank(name)
                  THEN /\ GetNameOf(naming'[namingOf'[1]], w) = undefinedName
                       /\ storeCall.fn = "unset"
                       /\ w \notin DOMAIN store'
                       /\ prefaceCall.arg = <<>>
                       /\ title'[w] = <<>>
                  ELSE /\ GetNameOf(naming'[namingOf'[1]], w) = name
                       /\ storeCall.fn = "set"
                       /\ storeCall.arg = name
                       /\ store'[w] = name
                       /\ prefaceCall.arg = <<"[">> \o name \o <<"]", " ">>
                       /\ title'[w] = prefaceCall.arg]_vars

\* a name with a blank in front has just been set on one window, after the
\* name of the other window was cleared again
C11_Witness ==
    /\ last.op = "setName"
    /\ getName(1, last.w) = <<" ", "a">>
    /\ store[last.w] = <<" ", "a">>
    /\ \E o \in WindowIds \ {last.w} :
           /\ o \in DOMAIN naming[namingOf[1]]
           /\ getName(1, o) = undefinedName
           /\ o \notin DOMAIN store
           /\ registered[1][o] = "never"

\* C12: a reloadNamesFromTemporaryStore that nothing interleaves with
\* resolves eventually; when it has, getName(w) of every registered w is the
\* store's value for w if the store holds one and what it was before the
\* call if not; window order, tab sequences, active tabs and focused window
\* are not changed by it.
ReloadSteps == {"reloadAwait", "getOne", "reloadResolved"}
C12_ReloadAlone ==
    /\ (reload.pc # "idle") ~> (reload.pc = "idle")
    /\ [](last.op = "reloadResolved" =>
            \A w \in WindowIds :
                hasWindow(1, w) =>
                    getName(1, w) = IF w \in DOMAIN store THEN store[w]
                                    ELSE GetNameOf(last.ret[1], w))
    /\ [][(last' # last /\ last'.op \in ReloadSteps) =>
             UNCHANGED <<worder, order, active, focusedWindow, store>>]_vars

\* a reload has resolved with two windows registered, one whose name came
\* from the store and one the store holds nothing for
C12_Witness ==
    /\ last.op = "reloadResolved"
    /\ \E w \in WindowIds :
           /\ hasWindow(1, w)
           /\ w \in DOMAIN store
           /\ GetNameOf(last.ret[1], w) # store[w]
           /\ getName(1, w) = store[w]
           /\ \E o \in WindowIds \ {w} :
                  /\ hasWindow(1, o)
                  /\ o \notin DOMAIN store
                  /\ getName(1, o) = undefinedName
    /\ getFocusedWindow(1) \in WindowIds

C14_AppendTab ==
    [][Stepped("appendTabToWindow") =>
       \A w \in {last'.w} :
         \A tab \in [id : TabIdsOf(w), index : Positions, active : BOOLEAN],
            inferActive \in BOOLEAN :
           (/\ hasWindow(1, w)
            /\ appendTabToWindow(1, w, tab, inferActive)
            /\ Occurrences(order[1][w], tab.id) = {}
            /\ tab.index \in 0 .. Len(order[1][w])) =>
               /\ t_in(order'[1], w)
               /\ Len(order'[1][w]) = Len(order[1][w]) + 1
               /\ order'[1][w][tab.index + 1] = tab.id
               /\ RemoveAt(order'[1][w], tab.index + 1) = order[1][w]
               /\ GetId(active'[activeOf'[1]], w) =
                      IF inferActive /\ tab.active THEN tab.id
                      ELSE getActiveTab(1, w)]_vars

\* a third tab has just been appended to a window whose active tab is one
\* of the three
C14_Witness ==
    /\ last.op = "appendTabToWindow"
    /\ last.err = "none"
    /\ hasWindow(1, last.w)
    /\ Len(order[1][last.w]) = 3
    /\ getActiveTab(1, last.w) \in Range(order[1][last.w])

\* C15: for a registered window w, a tab id t in w's sequence and a valid
\* position p, after moveTabWithinWindow(w, t, p) the id t is at position p,
\* the other ids are in the order they were in, and the sequence is the one
\* removeTabFromWindow(w, t) followed by insertTabIntoWindow(w, t, p) leaves.
C15_MoveTab ==
    [][Stepped("moveTabWithinWindow") =>
       \A w \in {last'.w} :
         \A tabId \in TabIdsOf(w), p \in Positions :
           (/\ hasWindow(1, w)
            /\ moveTabWithinWindow(1, w, tabId, p)
            /\ Occurrences(order[1][w], tabId) # {}
            /\ p \in 0 .. (Len(order[1][w]) - 1)) =>
               /\ t_in(order'[1], w)
               /\ Len(order'[1][w]) = Len(order[1][w])
               /\ order'[1][w][p + 1] = tabId
               /\ \E j \in Occurrences(order[1][w], tabId) :
                      RemoveAt(order'[1][w], p + 1) = RemoveAt(order[1][w], j)
               /\ \E removed \in LLremove(order[1][w], tabId) :
                      /\ Occurrences(removed, tabId) = {}
                      /\ order'[1][w] = LLinsert(removed, tabId, p)]_vars

\* a tab has just been moved within a sequence of three, which is no longer
\* in the order of the ids
C15_Witness ==
    /\ last.op = "moveTabWithinWindow"
    /\ last.err = "none"
    /\ hasWindow(1, last.w)
    /\ Len(order[1][last.w]) = 3
    /\ order[1][last.w][1] > order[1][last.w][2]
    /\ order[1][last.w][2] < order[1][last.w][3]

\* C16: in every state reached by registerWindow, unregisterWindow and tab
\* operations on registered windows, getAllAs2DArray() raises no error and
\* returns exactly one inner array per registered window, in window order:
\* every id in the window order has a tab-order record.
C16_GetAllAs2DArray ==
    /\ ~getAllAs2DArrayThrows(1)
    /\ Len(getAllAs2DArray(1)) = Cardinality({w \in WindowIds : hasWindow(1, w)})
    /\ \A w \in WindowIds :
           hasWindow(1, w) =>
               \E i \in 1 .. Len(worder[1]) :
                   /\ Occurrences(worder[1], w) = {i}
                   /\ getAllAs2DArray(1)[i] = LLtoArray(order[1][w])

\* C17: removeTabFromWindow, insertTabIntoWindow and moveTabWithinWindow on
\* a registered window w change only w's tab sequence: the window order,
\* every other window's tab sequence, all names, the focused window and
\* every active-tab record stay as they were, so getActiveTab(w) still
\* returns the tab that removeTabFromWindow took out.
C17_TabOperationsFrame ==
    [][(\/ Stepped("removeTabFromWindow")
        \/ Stepped("insertTabIntoWindow")
        \/ Stepped("moveTabWithinWindow")) =>
       \A w \in {last'.w} :
           hasWindow(1, w) =>
               /\ UNCHANGED <<worder, activeOf, active, namingOf, naming,
                              focusedWindow, store, title>>
               /\ DOMAIN order'[1] = DOMAIN order[1]
               /\ \A v \in DOMAIN order[1] \ {w} : order'[1][v] = order[1][v]
               /\ \A v \in WindowIds :
                      /\ GetId(active'[activeOf'[1]], v) = getActiveTab(1, v)
                      /\ GetNameOf(naming'[namingOf'[1]], v) = getName(1, v)]_vars

\* a tab has just been removed from window 1, whose active tab is the tab
\* 12 that only appendTabToWindow can have made active, and 12 is no longer
\* in the sequence
C17_Witness ==
    /\ last.op = "removeTabFromWindow"
    /\ last.err = "none"
    /\ last.w = 1
    /\ hasWindow(1, 1)
    /\ getActiveTab(1, 1) = 12
    /\ 12 \notin Range(order[1][1])
    /\ hasWindow(1, 2)
    /\ order[1][2] # <<>>

\* C18: registerWindow and unregisterWindow make no call to the temporary
\* store and leave it as it is, so an entry written by setName outlives the
\* window: after registerWindow(w); setName(w, n) with n not blank;
\* unregisterWindow(w); registerWindow(w) and a completed reload,
\* getName(w) is n, the entry the store still holds.
C18_StoreOutlivesWindow ==
    /\ [][(Stepped("registerWindow") \/ Stepped("unregisterWindow")) =>
             /\ last'.calls = <<>>
             /\ UNCHANGED <<store, title>>]_vars
    /\ [][store' # store => Stepped("setName")]_vars
    /\ [](last.op = "reloadResolved" =>
            \A w \in WindowIds :
                (hasWindow(1, w) /\ w \in DOMAIN store) =>
                    /\ ~IsBlank(store[w])
                    /\ getName(1, w) = store[w])

\* a reload has resolved for a registered window that had no name when the
\* reload began and has the name of its store entry now: the entry was
\* written while the window was registered before
C18_Witness ==
    /\ last.op = "reloadResolved"
    /\ \E w \in WindowIds :
           /\ hasWindow(1, w)
           /\ GetNameOf(last.ret[1], w) = undefinedName
           /\ w \in DOMAIN store
           /\ store[w] = <<" ", "a">>
           /\ getName(1, w) = <<" ", "a">>

\* C19: when setName(w, n) was called for a registered window w while
\* reloadNamesFromTemporaryStore was in flight, then once the reload has
\* resolved the name of w agrees with the store: getName(w) is the store's
\* entry for w when there is one and undefined when there is none.
C19_ReloadKeepsNewerName ==
    last.op = "reloadResolved" =>
        \A w \in WindowIds :
            hasWindow(1, w) =>
                getName(1, w) = IF w \in DOMAIN store THEN store[w]
                                ELSE undefinedName

====
